---- MODULE Spec2Model ----
(***************************************************************************)
(* A model of main.py: the Streamlit script of the bilingual PDF chat      *)
(* assistant with one shared ("global") context cache.                     *)
(*                                                                         *)
(*  - Money is counted in units of 1.875e-8 dollars, the largest unit in   *)
(*    which every rate of the script is a whole number per token: a rate   *)
(*    of R dollars per 1M tokens is R / 1e6 / 1.875e-8 units per token, so *)
(*    (tokens / 1_000_000) * R of the source is tokens * rate here.  The   *)
(*    source computes in binary floating point; the model is exact.        *)
(*  - Time is counted in hours; the clock moves in steps of half the TTL.  *)
(*  - A remote cache is named by its creation index (1, 2, ...); None is 0.*)
(***************************************************************************)
EXTENDS Integers, Sequences, FiniteSets, TLC

\* ---------------------------------------------------------------- bounds
MaxTicks == 3       \* the clock advances at most this many half-TTL steps
MaxCreates == 2     \* remote caches the service accepts in one run of the model
MaxAsks == 2        \* answered questions per session

\* ------------------------------------------------------ program constants
PDF_TOKENS == 387000
INPUT_COST_PER_1M_TOKENS == 8              \* 0.15    $ / 1M tokens
OUTPUT_COST_PER_1M_TOKENS == 32            \* 0.60    $ / 1M tokens
CONTEXT_CACHING_COST_PER_1M_TOKENS == 2    \* 0.0375  $ / 1M tokens
CONTEXT_CACHING_STORAGE_PER_HOUR == 1      \* 0.01875 $ / 1M tokens / hour
STANDARD_INPUT_RATE == 4                   \* 0.075   $ / 1M tokens (<= 128K)
STANDARD_OUTPUT_RATE == 16                 \* 0.30    $ / 1M tokens (<= 128K)
TIER_THRESHOLD == 128000
GLOBAL_CACHE_DURATION_HOURS == 24

INITIAL_UPLOAD_COST == PDF_TOKENS * INPUT_COST_PER_1M_TOKENS
STORAGE_COST_PER_HOUR == PDF_TOKENS * CONTEXT_CACHING_STORAGE_PER_HOUR
CACHED_CONTENT_COST_PER_QUERY == PDF_TOKENS * CONTEXT_CACHING_COST_PER_1M_TOKENS

\* ------------------------------------------------------------- the values
None == 0                        \* Python's None, for a handle or a name
NoDoc == "missing"               \* Document.pdf does not exist
Unreadable == "unreadable"       \* Document.pdf exists but open() raises
Raised == "raised"               \* a read of Document.pdf raised
Docs == {"pdfA", "pdfB"}         \* the contents Document.pdf can have
NoHash == "None"                 \* get_pdf_hash() returned None
NoBytes == "None"                \* load_stored_pdf() returned None
\* what load_cache_status() returns: present is its truth value, form is what
\* the status file holds
NoStatus == [cache_name |-> None, created_at |-> 0, pdf_hash |-> NoHash,
             present |-> FALSE, form |-> "absent"]  \* no file: None
\* the status file is not what save_cache_status() wrote: it cannot be opened,
\* is not JSON, is a true JSON value that is no object, or is an object whose
\* created_at is missing or is no ISO date
DamageKinds == {"unreadable", "not_json", "non_object", "no_created_at",
                "bad_created_at"}
Users == {"u1", "u2"}            \* the browser sessions that can exist
Questions == {"", "  ", "q1", " q2"}     \* what the text input can hold
Answers == {"a1", "answer-2"}            \* response.text of the remote model
ExactTokenCounts == {128001}             \* result.total_tokens, when the call works
HalfTTL == GLOBAL_CACHE_DURATION_HOURS \div 2

\* --------------------------------------------------------- pure functions

\* hashlib.md5(content).hexdigest(): distinct contents, distinct digests
md5(content) ==
  CASE content = "pdfA" -> "d41d8cd9"
    [] content = "pdfB" -> "900150983"

\* get_pdf_hash(): None when the file is missing, else the digest of its bytes;
\* open() raises when the file cannot be read
get_pdf_hash(d) ==
  IF d = NoDoc THEN NoHash ELSE IF d = Unreadable THEN Raised ELSE md5(d)

\* load_stored_pdf(): None when the file is missing, else its bytes; open()
\* raises when the file cannot be read
load_stored_pdf(d) ==
  IF d = NoDoc THEN NoBytes ELSE IF d = Unreadable THEN Raised ELSE d

\* mutant: the age is never looked at
ExpiredNever(created_at, t) == FALSE

\* elapsed.total_seconds() > GLOBAL_CACHE_DURATION_HOURS * 3600, in hours
Expired(created_at, t) == (t - created_at) > GLOBAL_CACHE_DURATION_HOURS

\* mutant: the document's hash is not compared
is_global_cache_valid_any_document(status, d, t) ==
  IF ~status.present THEN <<FALSE, None>>
  ELSE IF Expired(status.created_at, t) THEN <<FALSE, None>>
  ELSE <<TRUE, status.cache_name>>

\* is_global_cache_valid(): (is_valid, cache_name) from the status file, the
\* document and the clock
is_global_cache_valid(status, d, t) ==
  IF ~status.present THEN <<FALSE, None>>
  ELSE IF get_pdf_hash(d) # status.pdf_hash THEN <<FALSE, None>>
  ELSE IF Expired(status.created_at, t) THEN <<FALSE, None>>
  ELSE <<TRUE, status.cache_name>>

\* is_global_cache_valid() raises: the status is a true value and the document
\* cannot be read (line 89), or the status has no get() (line 101), or the
\* hashes agree and created_at is missing or no ISO date (line 106)
CheckRaises(status, d, t) ==
  /\ status.present
  /\ \/ d = Unreadable
     \/ status.form = "non_object"
     \/ /\ status.form \in {"no_created_at", "bad_created_at"}
        /\ get_pdf_hash(d) = status.pdf_hash

\* the record save_cache_status() writes
StatusRecord(cache_name, created_at, pdf_hash) ==
  [cache_name |-> cache_name, created_at |-> created_at, pdf_hash |-> pdf_hash,
   present |-> TRUE, form |-> "object"]

\* mutant: the threshold itself is billed at the large-prompt rate
InputCostStrict(input_tokens) ==
  IF input_tokens < TIER_THRESHOLD
    THEN input_tokens * STANDARD_INPUT_RATE
    ELSE input_tokens * INPUT_COST_PER_1M_TOKENS

\* mutant: only the tokens above the threshold are billed at the large-prompt rate
InputCostMarginal(input_tokens) ==
  IF input_tokens <= TIER_THRESHOLD
    THEN input_tokens * STANDARD_INPUT_RATE
    ELSE TIER_THRESHOLD * STANDARD_INPUT_RATE
           + (input_tokens - TIER_THRESHOLD) * INPUT_COST_PER_1M_TOKENS

\* the input sub-cost of a query: two tiers around 128,000 tokens
InputCost(input_tokens) ==
  IF input_tokens <= TIER_THRESHOLD
    THEN input_tokens * STANDARD_INPUT_RATE
    ELSE input_tokens * INPUT_COST_PER_1M_TOKENS

\* the output sub-cost of a query: two tiers around 128,000 tokens
OutputCost(output_tokens) ==
  IF output_tokens <= TIER_THRESHOLD
    THEN output_tokens * STANDARD_OUTPUT_RATE
    ELSE output_tokens * OUTPUT_COST_PER_1M_TOKENS

\* calculate_cost(input_tokens, output_tokens, operation_type, cache_hours)
calculate_cost(input_tokens, output_tokens, operation_type, cache_hours) ==
  CASE operation_type = "initial_upload" -> INITIAL_UPLOAD_COST
    [] operation_type = "query" ->
         CACHED_CONTENT_COST_PER_QUERY + InputCost(input_tokens)
           + OutputCost(output_tokens)
    [] operation_type = "storage" -> cache_hours * STORAGE_COST_PER_HOUR
    [] OTHER -> 0

\* str.strip(): leading and trailing blanks removed
RECURSIVE lstrip(_)
lstrip(s) == IF Len(s) > 0 /\ Head(s) = " " THEN lstrip(Tail(s)) ELSE s
RECURSIVE rstrip(_)
rstrip(s) ==
  IF Len(s) > 0 /\ SubSeq(s, Len(s), Len(s)) = " "
    THEN rstrip(SubSeq(s, 1, Len(s) - 1)) ELSE s
strip(s) == rstrip(lstrip(s))

\* the f-string of ask_question around {question}
PromptHead ==
  "\n    Please answer the following question in TWO languages:\n    \n    Question: "
PromptTail ==
  "\n    \n    Please provide your response in the following format:\n    \n    English (Formal):\n    [Your detailed answer in formal English]\n    \n    Telugu (Formal):\n    [Your detailed answer in formal Telugu]\n    \n    Make sure both responses are comprehensive and professional and complete.\n    "
bilingual_prompt(question) == PromptHead \o question \o PromptTail

\* mutant: only the questions of the earlier turns are replayed
RECURSIVE ReplayQuestionsOnly(_)
ReplayQuestionsOnly(history) ==
  IF history = <<>> THEN <<>>
  ELSE <<history[1][1]>> \o ReplayQuestionsOnly(Tail(history))

\* the conversation list ask_question sends: q, a of every turn, then the prompt
RECURSIVE Replay(_)
Replay(history) ==
  IF history = <<>> THEN <<>>
  ELSE <<history[1][1], history[1][2]>> \o Replay(Tail(history))
conversation(history, question) ==
  Append(Replay(history), bilingual_prompt(question))

\* mutant: a failed count is taken as no tokens
get_token_count_no_fallback(text, exact) == IF exact = None THEN 0 ELSE exact

\* get_token_count(text): the remote count, or len(text) // 4 when it fails
get_token_count(text, exact) == IF exact = None THEN Len(text) \div 4 ELSE exact
CountOutcomes == ExactTokenCounts \cup {None}

\* ------------------------------------------------------------------ state
VARIABLES
  active,                     \* the sessions that are open (fixed by Init)
  scope,                      \* the inputs and bounds explored (fixed by Init)
  probe,                      \* a pure function's arguments and result (ProbeSpec)
  now,                        \* datetime.now(), in hours
  doc,                        \* the content of Document.pdf, or NoDoc
  file,                       \* global_cache_status.json, as load_cache_status reads it
  ncaches,                    \* how many caches the remote service has created
  pc,                         \* where each session's script run stands
  local,                      \* the local variables of each session's script run
  global_pdf_cache,           \* st.session_state.global_pdf_cache
  session_started,            \* st.session_state.session_started
  chat_history,               \* st.session_state.chat_history
  total_input_tokens,         \* st.session_state.total_input_tokens
  total_output_tokens,        \* st.session_state.total_output_tokens
  total_cost,                 \* st.session_state.total_cost
  global_cache_creation_cost, \* st.session_state.global_cache_creation_cost
  call,                       \* history: the get_or_create_global_cache call of this script run
  answered,                   \* history: the (question, answer) pairs the remote model returned
  chain,                      \* history: the kinds of remote call that failed, and were
                              \* issued again, since the user's last action
  logged                      \* api_calls.log: the cost events of each session, by operation type

frame == <<active, scope, probe>>
shared == <<now, doc, file, ncaches>>
ledger == <<total_input_tokens, total_output_tokens, total_cost,
            global_cache_creation_cost>>
session == <<global_pdf_cache, session_started, chat_history>>
history == <<call, answered, chain, logged>>
program == <<shared, pc, local, session, ledger, history>>
vars == <<frame, program>>

NoLocal == [clicked |-> "none", question |-> "", cache_name |-> None,
            file_bytes |-> NoBytes, pdf_hash |-> NoHash, cache |-> None,
            conversation |-> <<>>, answer |-> "", counted |-> <<>>,
            generated |-> 0]  \* generated: the generate_content calls of this run
\* no call yet in this script run
NoCall == [state |-> "none", t |-> 0, d |-> NoDoc, present |-> FALSE,
           form |-> "absent", same_hash |-> FALSE, elapsed |-> 0,
           old |-> None, valid |-> FALSE, get |-> "none", made |-> None,
           saved |-> FALSE, ret |-> None, events |-> <<>>, log_hours |-> 0]
\* no remote call failed yet since the user's last action
NoChain == [failed |-> {}, again |-> {}]
\* a remote call of some kind is issued, and works or fails (this history is
\* kept where the scope asks for it)
Issued(c, kind, ok) ==
  IF scope.chains
    THEN [failed |-> IF ok THEN c.failed ELSE c.failed \cup {kind},
          again |-> IF kind \in c.failed THEN c.again \cup {kind} ELSE c.again]
    ELSE c
\* no evaluation yet
NoProbe == [op |-> "none", input_tokens |-> 0, output_tokens |-> 0,
            operation_type |-> "query", cache_hours |-> 0, cost |-> 0,
            zero_input |-> 0, twice_input |-> 0, zero_output |-> 0,
            twice_output |-> 0, zero_hours |-> 0, twice_hours |-> 0]

\* the cache lifecycle at full depth, one question with one answer
LifecycleScope ==
  [ticks |-> MaxTicks, creates |-> MaxCreates, asks |-> 1,
   questions |-> {"  ", "q1"}, answers |-> {"a1"}, counts |-> {None}, chains |-> FALSE]
\* the conversation at full depth, one cache
ChatScope ==
  [ticks |-> 1, creates |-> 1, asks |-> MaxAsks,
   questions |-> Questions, answers |-> Answers, counts |-> {None}, chains |-> FALSE]

\* every session as Streamlit creates it (lines 50-57 and 516-521), no script run yet
InitSessions ==
  /\ pc = [s \in Users |-> "idle"]
  /\ local = [s \in Users |-> NoLocal]
  /\ global_pdf_cache = [s \in Users |-> None]
  /\ session_started = [s \in Users |-> FALSE]
  /\ chat_history = [s \in Users |-> <<>>]
  /\ total_input_tokens = [s \in Users |-> 0]
  /\ total_output_tokens = [s \in Users |-> 0]
  /\ total_cost = [s \in Users |-> 0]
  /\ global_cache_creation_cost = [s \in Users |-> 0]
  /\ call = [s \in Users |-> NoCall]
  /\ answered = [s \in Users |-> <<>>]
  /\ chain = [s \in Users |-> NoChain]
  /\ logged = [s \in Users |-> [initial_upload |-> 0, query |-> 0]]

\* a first deployment: no status file, no remote cache
InitProgram ==
  /\ now = 0
  /\ doc \in Docs \cup {NoDoc}
  /\ file = NoStatus
  /\ ncaches = 0
  /\ InitSessions

\* one browser session, the cache lifecycle
Init ==
  /\ active = {"u1"}
  /\ scope = LifecycleScope
  /\ probe = NoProbe
  /\ InitProgram

\* one browser session, the conversation
InitChat ==
  /\ active = {"u1"}
  /\ scope = ChatScope
  /\ probe = NoProbe
  /\ InitProgram

\* ------------------------------------------------------------ environment

\* time passes
Tick ==
  /\ now + HalfTTL <= scope.ticks * HalfTTL
  /\ now' = now + HalfTTL
  /\ UNCHANGED <<frame, doc, file, ncaches, pc, local, session, ledger, history>>

\* somebody replaces, removes or restores Document.pdf
ChangeDoc ==
  /\ \E d \in (Docs \cup {NoDoc}) \ {doc} : doc' = d
  /\ UNCHANGED <<frame, now, file, ncaches, pc, local, session, ledger, history>>

\* ------------------------------------------------------------ a script run

\* the script run ends, normally ("idle") or with an uncaught exception that
\* Streamlit shows: its locals are gone
Ended == {"idle", "check_raised", "create_raised", "generate_raised"}

EndRun(s, how) ==
  /\ pc' = [pc EXCEPT ![s] = how]
  /\ local' = [local EXCEPT ![s] = NoLocal]
  /\ call' = [call EXCEPT ![s] = NoCall]
  /\ chain' = [chain EXCEPT ![s] = NoChain]

\* st.rerun(): the script starts again from the top, no button pressed
Rerun(s) ==
  /\ pc' = [pc EXCEPT ![s] = "start_section"]
  /\ local' = [local EXCEPT ![s] = NoLocal]

\* a user event runs the script: a page load, the Start button (shown while the
\* session is not started) or the Send button (shown in the chat interface)
UserRun(s) ==
  /\ pc[s] \in Ended
  /\ \E c \in {"none", "start", "send"} :
     \E q \in IF c = "send" THEN scope.questions ELSE {""} :
       /\ c = "start" => ~session_started[s]
       /\ c = "send" => /\ session_started[s] /\ global_pdf_cache[s] # None
                        /\ Len(chat_history[s]) < scope.asks
       /\ local' = [local EXCEPT ![s] = [NoLocal EXCEPT !.clicked = c,
                                                        !.question = q]]
  /\ pc' = [pc EXCEPT ![s] = "start_section"]
  /\ UNCHANGED <<frame, shared, session, ledger, history>>

\* the top of the script down to the Start Session section's call of
\* get_or_create_global_cache: get_global_cache_status() (line 408) and the
\* section's own is_global_cache_valid(), both of which read the status file
\* and the document and change nothing; an exception of either ends the run
StartSection(s) ==
  /\ pc[s] = "start_section"
  /\ IF CheckRaises(file, doc, now)
       THEN EndRun(s, "check_raised")
       ELSE LET is_valid == is_global_cache_valid(file, doc, now)[1]
                calls == IF ~session_started[s]
                           THEN is_valid \/ local[s].clicked = "start"
                           ELSE ~is_valid
            IN /\ pc' = [pc EXCEPT ![s] = IF calls THEN "get_or_create"
                                                   ELSE "chat"]
               /\ UNCHANGED <<local, call, chain>>
  /\ UNCHANGED <<frame, shared, session, ledger, answered, logged>>

\* the history of a call that starts: what its validity check saw
NewCall(v) ==
  [NoCall EXCEPT !.state = "run", !.t = now, !.d = doc,
     !.present = file.present, !.form = file.form,
     !.same_hash = (get_pdf_hash(doc) = file.pdf_hash),
     !.elapsed = IF file.present THEN now - file.created_at ELSE 0,
     !.old = file.cache_name, !.valid = v[1]]

\* mutant: the record is checked and a cache is created all the same
GetOrCreateAlways(s) ==
  /\ pc[s] = "get_or_create"
  /\ LET v == is_global_cache_valid(file, doc, now)
     IN /\ pc' = [pc EXCEPT ![s] = "create"]
        /\ local' = [local EXCEPT ![s].cache_name = v[2]]
        /\ call' = [call EXCEPT ![s] = NewCall(v)]
  /\ UNCHANGED <<frame, shared, session, ledger, answered, chain, logged>>

\* mutant: the call's validity check does not compare the document's hash
GetOrCreateAnyDocument(s) ==
  /\ pc[s] = "get_or_create"
  /\ LET v == is_global_cache_valid_any_document(file, doc, now)
     IN /\ pc' = [pc EXCEPT ![s] = IF v[1] /\ v[2] # None THEN "get"
                                                           ELSE "create"]
        /\ local' = [local EXCEPT ![s].cache_name = v[2]]
        /\ call' = [call EXCEPT ![s] = NewCall(v)]
  /\ UNCHANGED <<frame, shared, session, ledger, answered, chain, logged>>

\* get_or_create_global_cache: its own validity check, which can raise as the
\* section's can
GetOrCreate(s) ==
  /\ pc[s] = "get_or_create"
  /\ IF CheckRaises(file, doc, now)
       THEN EndRun(s, "check_raised")
       ELSE LET v == is_global_cache_valid(file, doc, now)
            IN /\ pc' = [pc EXCEPT ![s] = IF v[1] /\ v[2] # None THEN "get"
                                                                  ELSE "create"]
               /\ local' = [local EXCEPT ![s].cache_name = v[2]]
               /\ call' = [call EXCEPT ![s] = NewCall(v)]
               /\ UNCHANGED chain
  /\ UNCHANGED <<frame, shared, session, ledger, answered, logged>>

\* mutant: the exception of CachedContent.get is not caught
GetCacheRaises(s) ==
  /\ pc[s] = "get"
  /\ \/ /\ local' = [local EXCEPT ![s].cache = local[s].cache_name]
        /\ pc' = [pc EXCEPT ![s] = "return"]
        /\ call' = [call EXCEPT ![s].get = "ok", ![s].events = Append(@, "get")]
        /\ chain' = [chain EXCEPT ![s] = Issued(@, "get", TRUE)]
     \/ EndRun(s, "create_raised")
  /\ UNCHANGED <<frame, shared, session, ledger, answered, logged>>

\* mutant: a failed retrieval is tried again
GetCacheRetries(s) ==
  /\ pc[s] = "get"
  /\ \E ok \in BOOLEAN :
       IF ok
         THEN /\ local' = [local EXCEPT ![s].cache = local[s].cache_name]
              /\ pc' = [pc EXCEPT ![s] = "return"]
              /\ call' = [call EXCEPT ![s].get = "ok",
                                      ![s].events = Append(@, "get")]
              /\ chain' = [chain EXCEPT ![s] = Issued(@, "get", TRUE)]
         ELSE /\ pc' = [pc EXCEPT ![s] = IF "get" \notin chain[s].failed THEN "get"
                                                             ELSE "create"]
              /\ call' = [call EXCEPT ![s].get = "failed",
                                      ![s].events = Append(@, "get")]
              /\ chain' = [chain EXCEPT ![s] = Issued(@, "get", FALSE)]
              /\ UNCHANGED local
  /\ UNCHANGED <<frame, shared, session, ledger, answered, logged>>

\* genai.caching.CachedContent.get(cache_name): the handle, or an exception
\* that is caught and falls through to creation
GetCache(s) ==
  /\ pc[s] = "get"
  /\ \E ok \in BOOLEAN :
       IF ok
         THEN /\ local' = [local EXCEPT ![s].cache = local[s].cache_name]
              /\ pc' = [pc EXCEPT ![s] = "return"]
              /\ call' = [call EXCEPT ![s].get = "ok",
                                      ![s].events = Append(@, "get")]
              /\ chain' = [chain EXCEPT ![s] = Issued(@, "get", TRUE)]
         ELSE /\ pc' = [pc EXCEPT ![s] = "create"]
              /\ call' = [call EXCEPT ![s].get = "failed",
                                      ![s].events = Append(@, "get")]
              /\ chain' = [chain EXCEPT ![s] = Issued(@, "get", FALSE)]
              /\ UNCHANGED local
  /\ UNCHANGED <<frame, shared, session, ledger, answered, logged>>

\* mutant: a missing document is not noticed and the creation goes on
CreateLoadIgnoresMissing(s) ==
  /\ pc[s] = "create"
  /\ LET file_bytes == load_stored_pdf(doc)
     IN IF file_bytes = Raised
          THEN EndRun(s, "create_raised")
          ELSE /\ pc' = [pc EXCEPT ![s] = "create_hash"]
               /\ local' = [local EXCEPT ![s].file_bytes = file_bytes]
               /\ UNCHANGED <<call, chain>>
  /\ UNCHANGED <<frame, shared, session, ledger, answered, logged>>

\* create_global_pdf_cache: load_stored_pdf(); without the file the creation
\* returns None, and an unreadable file's exception ends the script run
CreateLoad(s) ==
  /\ pc[s] = "create"
  /\ LET file_bytes == load_stored_pdf(doc)
     IN IF file_bytes = Raised
          THEN EndRun(s, "create_raised")
          ELSE /\ IF file_bytes = NoBytes
                    THEN /\ pc' = [pc EXCEPT ![s] = "return"]
                         /\ local' = [local EXCEPT ![s].cache = None]
                    ELSE /\ pc' = [pc EXCEPT ![s] = "create_hash"]
                         /\ local' = [local EXCEPT ![s].file_bytes = file_bytes]
               /\ UNCHANGED <<call, chain>>
  /\ UNCHANGED <<frame, shared, session, ledger, answered, logged>>

\* create_global_pdf_cache: get_pdf_hash(), a second read of the file
CreateHash(s) ==
  /\ pc[s] = "create_hash"
  /\ IF get_pdf_hash(doc) = Raised
       THEN EndRun(s, "create_raised")
       ELSE /\ local' = [local EXCEPT ![s].pdf_hash = get_pdf_hash(doc)]
            /\ pc' = [pc EXCEPT ![s] = "create_remote"]
            /\ UNCHANGED <<call, chain>>
  /\ UNCHANGED <<frame, shared, session, ledger, answered, logged>>

\* mutant: the new cache's record is not persisted
CreateRemoteSkipsSave(s) ==
  /\ pc[s] = "create_remote"
  /\ \/ /\ ncaches < scope.creates
        /\ ncaches' = ncaches + 1
        /\ local' = [local EXCEPT ![s].cache = ncaches + 1]
        /\ pc' = [pc EXCEPT ![s] = "log_creation"]
        /\ call' = [call EXCEPT ![s].made = ncaches + 1,
                                ![s].events = Append(@, "create")]
        /\ chain' = [chain EXCEPT ![s] = Issued(@, "create", TRUE)]
     \/ /\ EndRun(s, "create_raised")
        /\ UNCHANGED ncaches
  /\ UNCHANGED <<frame, now, doc, file, session, ledger, answered, logged>>

\* genai.caching.CachedContent.create(...): a new cache under a new name, or
\* an exception, which nothing catches: the script run ends with the error
CreateRemote(s) ==
  /\ pc[s] = "create_remote"
  /\ \/ /\ ncaches < scope.creates
        /\ ncaches' = ncaches + 1
        /\ local' = [local EXCEPT ![s].cache = ncaches + 1]
        /\ pc' = [pc EXCEPT ![s] = "save"]
        /\ call' = [call EXCEPT ![s].made = ncaches + 1,
                                ![s].events = Append(@, "create")]
        /\ chain' = [chain EXCEPT ![s] = Issued(@, "create", TRUE)]
     \/ /\ EndRun(s, "create_raised")
        /\ UNCHANGED ncaches
  /\ UNCHANGED <<frame, now, doc, file, session, ledger, answered, logged>>

\* mutant: a record that names a newer cache is not overwritten
SaveCacheStatusKeepsNewest(s) ==
  /\ pc[s] = "save"
  /\ \E ok \in BOOLEAN :
       /\ file' = IF ok /\ ~(file.present /\ file.cache_name > local[s].cache)
                    THEN StatusRecord(local[s].cache, now, local[s].pdf_hash)
                    ELSE file
       /\ call' = [call EXCEPT ![s].saved = ok,
                               ![s].events = Append(@, "save")]
  /\ pc' = [pc EXCEPT ![s] = "log_creation"]
  /\ UNCHANGED <<frame, now, doc, ncaches, local, session, ledger, answered,
                 chain, logged>>

\* save_cache_status(cache.name, datetime.now(), pdf_hash): the file is
\* rewritten, or the write fails and the error is only logged
SaveCacheStatus(s) ==
  /\ pc[s] = "save"
  /\ \E ok \in BOOLEAN :
       /\ file' = IF ok THEN StatusRecord(local[s].cache, now, local[s].pdf_hash)
                        ELSE file
       /\ call' = [call EXCEPT ![s].saved = ok,
                               ![s].events = Append(@, "save")]
  /\ pc' = [pc EXCEPT ![s] = "log_creation"]
  /\ UNCHANGED <<frame, now, doc, ncaches, local, session, ledger, answered,
                 chain, logged>>

\* mutant: the running cost is assigned, not added to
log_api_call_assigns(s, input_tokens, output_tokens, operation_type, cache_hours) ==
  LET cost == calculate_cost(input_tokens, output_tokens, operation_type,
                             cache_hours)
  IN /\ total_input_tokens' =
          [total_input_tokens EXCEPT ![s] = @ + input_tokens]
     /\ total_output_tokens' =
          [total_output_tokens EXCEPT ![s] = @ + output_tokens]
     /\ total_cost' = [total_cost EXCEPT ![s] = cost]
     /\ logged' = [logged EXCEPT ![s][operation_type] = @ + 1]

\* log_api_call(operation, input_tokens, output_tokens, operation_type,
\* cache_hours): the three running totals, and the event in api_calls.log
log_api_call(s, input_tokens, output_tokens, operation_type, cache_hours) ==
  LET cost == calculate_cost(input_tokens, output_tokens, operation_type,
                             cache_hours)
  IN /\ total_input_tokens' =
          [total_input_tokens EXCEPT ![s] = @ + input_tokens]
     /\ total_output_tokens' =
          [total_output_tokens EXCEPT ![s] = @ + output_tokens]
     /\ total_cost' = [total_cost EXCEPT ![s] = @ + cost]
     /\ logged' = [logged EXCEPT ![s][operation_type] = @ + 1]

\* the cache_hours create_global_pdf_cache passes to log_api_call
CreationCacheHours == GLOBAL_CACHE_DURATION_HOURS

\* create_global_pdf_cache: the creation's cost event, and return cache
LogCreation(s) ==
  /\ pc[s] = "log_creation"
  /\ log_api_call(s, PDF_TOKENS, 0, "initial_upload", CreationCacheHours)
  /\ global_cache_creation_cost' =
       [global_cache_creation_cost EXCEPT ![s] = INITIAL_UPLOAD_COST]
  /\ call' = [call EXCEPT ![s].events = Append(@, "log"),
                          ![s].log_hours = CreationCacheHours]
  /\ pc' = [pc EXCEPT ![s] = "return"]
  /\ UNCHANGED <<frame, shared, local, session, answered, chain>>

\* mutant: a refresh that got no handle leaves the session started
ReturnKeepsStarted(s) ==
  /\ pc[s] = "return"
  /\ global_pdf_cache' = [global_pdf_cache EXCEPT ![s] = local[s].cache]
  /\ call' = [call EXCEPT ![s].state = "done", ![s].ret = local[s].cache]
  /\ IF ~session_started[s] /\ local[s].cache # None
       THEN /\ session_started' = [session_started EXCEPT ![s] = TRUE]
            /\ Rerun(s)
       ELSE /\ pc' = [pc EXCEPT ![s] = "chat"]
            /\ UNCHANGED <<session_started, local>>
  /\ UNCHANGED <<frame, shared, chat_history, ledger, answered, chain, logged>>

\* the Start Session section after get_or_create_global_cache returned
Return(s) ==
  /\ pc[s] = "return"
  /\ global_pdf_cache' = [global_pdf_cache EXCEPT ![s] = local[s].cache]
  /\ call' = [call EXCEPT ![s].state = "done", ![s].ret = local[s].cache]
  /\ IF ~session_started[s]
       THEN IF local[s].cache # None
              THEN /\ session_started' = [session_started EXCEPT ![s] = TRUE]
                   /\ Rerun(s)
              ELSE /\ pc' = [pc EXCEPT ![s] = "chat"]
                   /\ UNCHANGED <<session_started, local>>
       ELSE IF local[s].cache = None
              THEN /\ session_started' = [session_started EXCEPT ![s] = FALSE]
                   /\ Rerun(s)
              ELSE /\ pc' = [pc EXCEPT ![s] = "chat"]
                   /\ UNCHANGED <<session_started, local>>
  /\ UNCHANGED <<frame, shared, chat_history, ledger, answered, chain, logged>>

\* the chat interface: shown to a started session with a handle; a pressed
\* Send with a non-blank question calls ask_question, which builds the
\* conversation from the transcript and the question
ChatInterface(s) ==
  /\ pc[s] = "chat"
  /\ IF /\ session_started[s] /\ global_pdf_cache[s] # None
        /\ local[s].clicked = "send" /\ strip(local[s].question) # ""
       THEN /\ pc' = [pc EXCEPT ![s] = "ask"]
            /\ local' = [local EXCEPT ![s].conversation =
                           conversation(chat_history[s], local[s].question)]
            /\ UNCHANGED <<call, chain>>
       ELSE EndRun(s, "idle")
  /\ UNCHANGED <<frame, shared, session, ledger, answered, logged>>

\* mutant: a failed generation is caught and its message kept as the answer
GenerateContentSwallows(s) ==
  /\ pc[s] = "ask"
  /\ \/ \E a \in scope.answers :
          /\ local' = [local EXCEPT ![s].answer = a, ![s].generated = @ + 1]
          /\ pc' = [pc EXCEPT ![s] = "log_query"]
          /\ answered' = [answered EXCEPT ![s] =
                            Append(@, <<local[s].question, a>>)]
          /\ chain' = [chain EXCEPT ![s] = Issued(@, "generate", TRUE)]
          /\ UNCHANGED <<call, chat_history>>
     \/ /\ EndRun(s, "generate_raised")
        /\ chat_history' = [chat_history EXCEPT ![s] =
                              Append(@, <<local[s].question, "error">>)]
        /\ UNCHANGED answered
  /\ UNCHANGED <<frame, shared, global_pdf_cache, session_started, ledger,
                 logged>>

\* ask_question: model.generate_content(conversation): the answer, or an
\* exception, which nothing catches: the script run ends with the error
GenerateContent(s) ==
  /\ pc[s] = "ask"
  /\ \/ \E a \in scope.answers :
          /\ local' = [local EXCEPT ![s].answer = a, ![s].generated = @ + 1]
          /\ pc' = [pc EXCEPT ![s] = "log_query"]
          /\ answered' = [answered EXCEPT ![s] =
                            Append(@, <<local[s].question, a>>)]
          /\ chain' = [chain EXCEPT ![s] = Issued(@, "generate", TRUE)]
          /\ UNCHANGED call
     \/ /\ EndRun(s, "generate_raised")
        /\ UNCHANGED answered
  /\ UNCHANGED <<frame, shared, session, ledger, logged>>

\* mutant: the query's cost event is not logged
LogQuerySkips(s) ==
  /\ pc[s] = "log_query"
  /\ \E x \in scope.counts, y \in scope.counts :
       local' = [local EXCEPT ![s].counted = <<x, y>>]
  /\ pc' = [pc EXCEPT ![s] = "append"]
  /\ UNCHANGED <<frame, shared, session, ledger, history>>

\* ask_question: the two token counts, each the remote count or the fallback,
\* and the query's cost event
LogQuery(s) ==
  /\ pc[s] = "log_query"
  /\ \E x \in scope.counts, y \in scope.counts :
       LET input_tokens ==
             get_token_count(bilingual_prompt(local[s].question), x)
           output_tokens == get_token_count(local[s].answer, y)
       IN /\ log_api_call(s, input_tokens, output_tokens, "query", 0)
          /\ local' = [local EXCEPT ![s].counted = <<x, y>>]
  /\ pc' = [pc EXCEPT ![s] = "append"]
  /\ UNCHANGED <<frame, shared, session, global_cache_creation_cost,
                 call, answered, chain>>

\* mutant: the newest turn is put first
AppendTurnFirst(s) ==
  /\ pc[s] = "append"
  /\ chat_history' = [chat_history EXCEPT ![s] =
                        <<<<local[s].question, local[s].answer>>>> \o @]
  /\ Rerun(s)
  /\ UNCHANGED <<frame, shared, global_pdf_cache, session_started, ledger,
                 history>>

\* the send handler after ask_question returned: the turn joins the
\* transcript, and st.rerun()
AppendTurn(s) ==
  /\ pc[s] = "append"
  /\ chat_history' = [chat_history EXCEPT ![s] =
                        Append(@, <<local[s].question, local[s].answer>>)]
  /\ Rerun(s)
  /\ UNCHANGED <<frame, shared, global_pdf_cache, session_started, ledger,
                 history>>

Step(s) ==
  \/ UserRun(s)
  \/ StartSection(s)
  \/ GetOrCreate(s)
  \/ GetCache(s)
  \/ CreateLoad(s)
  \/ CreateHash(s)
  \/ CreateRemote(s)
  \/ SaveCacheStatus(s)
  \/ LogCreation(s)
  \/ Return(s)
  \/ ChatInterface(s)
  \/ GenerateContent(s)
  \/ LogQuery(s)
  \/ AppendTurn(s)

Next ==
  \/ Tick
  \/ ChangeDoc
  \/ \E s \in active : Step(s)

Spec == Init /\ [][Next]_vars

ChatSpec == InitChat /\ [][Next]_vars

\* ------------------------------------- damaged files, unreadable documents

\* one cache, one question: what the script does with a status file or a
\* document it cannot use
FaultScope ==
  [ticks |-> 1, creates |-> 2, asks |-> 1,
   questions |-> {"q1"}, answers |-> {"a1"}, counts |-> {None}, chains |-> FALSE]

InitFault ==
  /\ active = {"u1"}
  /\ scope = FaultScope
  /\ probe = NoProbe
  /\ InitProgram

\* something else than save_cache_status() writes global_cache_status.json: the
\* file becomes unreadable, no JSON, a true JSON value that is no object, or
\* the record loses its created_at or gets one that is no ISO date
DamageFile ==
  /\ \E k \in DamageKinds :
       CASE k \in {"unreadable", "not_json"} ->
              file' = [NoStatus EXCEPT !.form = k]
         [] k = "non_object" ->
              file' = [NoStatus EXCEPT !.form = k, !.present = TRUE]
         [] OTHER ->
              /\ file.form = "object"
              /\ file' = [file EXCEPT !.form = k]
  /\ UNCHANGED <<frame, now, doc, ncaches, pc, local, session, ledger, history>>

\* Document.pdf loses its read permission
ProtectDoc ==
  /\ doc \in Docs
  /\ doc' = Unreadable
  /\ UNCHANGED <<frame, now, file, ncaches, pc, local, session, ledger, history>>

NextFault ==
  \/ Next
  \/ DamageFile
  \/ ProtectDoc

FaultSpec == InitFault /\ [][NextFault]_vars

\* ------------------------------------------------------------ two sessions

\* two browser sessions at one instant, the document in place: each can start,
\* create a cache and ask one question
RaceScope ==
  [ticks |-> 0, creates |-> 3, asks |-> 1,
   questions |-> {"q1"}, answers |-> {"a1"}, counts |-> {None}, chains |-> FALSE]

\* the record an earlier run of the application left behind, now expired
LeftOver == StatusRecord(1, 0, md5("pdfA"))

\* the two sessions open on a first deployment, or on a status file left by an
\* earlier run whose cache has expired since
InitRace ==
  /\ active = Users
  /\ scope = RaceScope
  /\ probe = NoProbe
  /\ doc = "pdfA"
  /\ \/ now = 0 /\ file = NoStatus /\ ncaches = 0
     \/ now = 3 * HalfTTL /\ file = LeftOver /\ ncaches = 1
  /\ InitSessions

\* the two script runs interleave step by step: nothing in main.py locks
NextRace == \E s \in active : Step(s)

RaceSpec == InitRace /\ [][NextRace]_vars

\* ------------------------------------------------------------ remote calls

\* one session, two caches, one question, with the history of the remote calls
RetryScope ==
  [ticks |-> 1, creates |-> 2, asks |-> 1,
   questions |-> {"q1"}, answers |-> {"a1"}, counts |-> {None}, chains |-> TRUE]

InitRetry ==
  /\ active = {"u1"}
  /\ scope = RetryScope
  /\ probe = NoProbe
  /\ InitProgram

RetrySpec == InitRetry /\ [][Next]_vars

\* -------------------------------------------------------- the token counts

\* one question, each count_tokens call working or failing
CountScope ==
  [ticks |-> 1, creates |-> 1, asks |-> 1,
   questions |-> {"q1", " q2"}, answers |-> Answers, counts |-> CountOutcomes, chains |-> FALSE]

InitCount ==
  /\ active = {"u1"}
  /\ scope = CountScope
  /\ probe = NoProbe
  /\ InitProgram

CountSpec == InitCount /\ [][Next]_vars

\* ------------------------------------------------- the cost model, alone

TokenSamples == {0, 1, 64000, 100000, 128000, 128001, 1000000}
HourSamples == {0, 1, GLOBAL_CACHE_DURATION_HOURS}
OperationTypes == {"initial_upload", "query", "storage", "other"}

\* no session is open: only calculate_cost is evaluated
InitProbe ==
  /\ active = {}
  /\ scope = LifecycleScope
  /\ probe = NoProbe
  /\ InitProgram

\* calculate_cost at some arguments, and with one argument at a time set to
\* zero or doubled
Evaluate ==
  /\ \E i \in TokenSamples, o \in TokenSamples, ty \in OperationTypes,
        h \in HourSamples :
       probe' = [op |-> "calculate_cost", input_tokens |-> i,
                 output_tokens |-> o, operation_type |-> ty, cache_hours |-> h,
                 cost |-> calculate_cost(i, o, ty, h),
                 zero_input |-> calculate_cost(0, o, ty, h),
                 twice_input |-> calculate_cost(2 * i, o, ty, h),
                 zero_output |-> calculate_cost(i, 0, ty, h),
                 twice_output |-> calculate_cost(i, 2 * o, ty, h),
                 zero_hours |-> calculate_cost(i, o, ty, 0),
                 twice_hours |-> calculate_cost(i, o, ty, 2 * h)]
  /\ UNCHANGED <<active, scope, program>>

ProbeSpec == InitProbe /\ [][Evaluate]_vars

\* ----------------------------------------------------------------- claims

TTL == GLOBAL_CACHE_DURATION_HOURS
\* the calls that returned in the script run under way
Returned(s) == call[s].state = "done"
\* a sequence is the beginning of another
IsPrefix(a, b) == Len(a) <= Len(b) /\ SubSeq(b, 1, Len(a)) = a

\* C1: the validity check reports a record valid if and only if its hash is
\* the document's digest and strictly less than the TTL has elapsed since
\* created_at; at exactly the TTL the record is reported expired.
C1_ValidIffSameHashAndYoungerThanTTL ==
  \A s \in Users :
    call[s].state # "none" =>
      (call[s].valid <=>
         (call[s].present /\ call[s].same_hash /\ call[s].elapsed < TTL))

\* C2: idempotence.  A call that finds the record valid and meets no retrieval
\* failure returns the recorded identifier and creates nothing; and right after
\* a call returned a handle without a retrieval failure (same clock, same
\* document), a record that is valid names that very handle, so the next call
\* returns the same identifier.
C2_Idempotent ==
  \A s \in Users :
    LET c == call[s]
        v == is_global_cache_valid(file, doc, now)
    IN /\ (Returned(s) /\ c.valid /\ c.get # "failed") =>
            (c.ret = c.old /\ c.made = None /\ c.get = "ok")
       /\ (Returned(s) /\ c.ret # None /\ c.get # "failed" /\ now = c.t
             /\ doc = c.d /\ v[1]) => v[2] = c.ret

\* C2 witness: a started session's call is about to return, by retrieval, the
\* handle its previous call returned
C2_Witness ==
  \E s \in Users :
    /\ pc[s] = "return" /\ session_started[s]
    /\ call[s].valid /\ call[s].get = "ok"
    /\ local[s].cache # None /\ local[s].cache = global_pdf_cache[s]

C4_TTLLifecycle ==
  \A s \in Users :
    LET c == call[s]
    IN /\ (Returned(s) /\ ~c.present /\ c.ret # None) =>
            /\ c.ret = c.made
            /\ c.saved => file.present /\ file.cache_name = c.made
       /\ (Returned(s) /\ c.present /\ c.same_hash /\ c.elapsed < TTL
             /\ c.get # "failed") =>
            /\ c.ret = c.old /\ c.made = None
            /\ file = StatusRecord(c.old, c.t - c.elapsed, get_pdf_hash(c.d))
       /\ (Returned(s) /\ c.present /\ c.same_hash /\ c.elapsed > TTL) =>
            /\ c.get = "none" /\ c.ret = c.made /\ c.ret # c.old
            /\ (c.ret # None /\ c.saved) =>
                 (file.cache_name = c.made /\ file.created_at > c.t - c.elapsed)

\* C4 witness: a record older than the TTL was replaced by a second cache's
C4_Witness ==
  \E s \in Users :
    /\ Returned(s) /\ call[s].present /\ call[s].same_hash
    /\ call[s].elapsed > TTL /\ call[s].old = 1 /\ call[s].ret = 2
    /\ call[s].saved /\ file.cache_name = 2

\* C5, the state part: a call that met a retrieval failure and returned a
\* handle returns a cache it created, not the recorded one
C5_ReturnsNewHandle ==
  \A s \in Users :
    LET c == call[s]
    IN (Returned(s) /\ c.get = "failed" /\ c.ret # None) =>
         (c.valid /\ c.ret = c.made /\ c.ret # c.old)

\* C5, the step part: a retrieval step never ends the script run; when it
\* fails the call goes on to creation
C5_FailureFallsThrough ==
  \A s \in Users :
    (pc[s] = "get" /\ pc'[s] # "get") =>
      \/ pc'[s] = "return" /\ call'[s].get = "ok"
      \/ pc'[s] = "create" /\ call'[s].get = "failed"

\* C5: retrieval-failure fallback.  With a valid record and a failing get_cache
\* the error is not propagated: the call goes on to create a new remote cache
\* and returns the new handle.
C5_RetrievalFailureFallback ==
  [] C5_ReturnsNewHandle /\ [][C5_FailureFallsThrough]_vars

\* C5 witness: a call whose retrieval failed returned a cache it created
C5_Witness ==
  \E s \in Users :
    /\ Returned(s) /\ call[s].get = "failed"
    /\ call[s].ret # None /\ call[s].ret = call[s].made

\* what a session keeps between script runs
SessionOf(s) ==
  <<global_pdf_cache[s], session_started[s], chat_history[s],
    total_input_tokens[s], total_output_tokens[s], total_cost[s],
    global_cache_creation_cost[s]>>

\* C6, the step: an ask whose generation fails ends the run with the error and
\* leaves the session as it was
C6_FailedAskStep ==
  \A s \in Users :
    (pc[s] = "ask" /\ pc'[s] # "ask" /\ answered'[s] = answered[s]) =>
      (pc'[s] = "generate_raised" /\ SessionOf(s)' = SessionOf(s))

\* C6: a failing generate_content is propagated to the caller and the session
\* is left as it was: no pair joins the transcript, no query cost is logged.
C6_FailedAskLeavesSession == [][C6_FailedAskStep]_vars

\* C6 witness: after an answered question, a later ask failed
C6_Witness ==
  \E s \in Users :
    /\ pc[s] = "generate_raised"
    /\ Len(chat_history[s]) = 1 /\ answered[s] = chat_history[s]

\* C7, the state part: the transcript is the answered turns, in call order,
\* but for the turn whose cost is being logged
C7_TranscriptIsAnswered ==
  \A s \in Users :
    IF pc[s] \in {"log_query", "append"}
      THEN /\ IsPrefix(chat_history[s], answered[s])
           /\ Len(answered[s]) = Len(chat_history[s]) + 1
      ELSE chat_history[s] = answered[s]

\* C7, the step part: what is in the transcript stays, in place
C7_TranscriptOnlyGrows ==
  \A s \in Users : IsPrefix(chat_history[s], chat_history'[s])

\* C7: transcript ordering.  After N answered asks the transcript is
\* [(q1,a1),...,(qN,aN)] in call order, and no entry is ever modified,
\* reordered or removed.
C7_TranscriptOrder ==
  [] C7_TranscriptIsAnswered /\ [][C7_TranscriptOnlyGrows]_vars

\* C7 witness: two different turns are in the transcript
C7_Witness ==
  \E s \in Users :
    /\ Len(chat_history[s]) = 2
    /\ chat_history[s][1][1] # chat_history[s][2][1]
    /\ chat_history[s][1][2] # chat_history[s][2][2]

\* C8, the step: no total decreases; a creation's cost event adds PDF_TOKENS
\* and INITIAL_UPLOAD_COST, a query's adds its token counts and the cost
\* calculate_cost gives for them
C8_LedgerStep ==
  \A s \in Users :
    LET di == total_input_tokens'[s] - total_input_tokens[s]
        do == total_output_tokens'[s] - total_output_tokens[s]
        dc == total_cost'[s] - total_cost[s]
    IN /\ di >= 0 /\ do >= 0 /\ dc >= 0
       /\ (pc[s] = "log_creation" /\ pc'[s] # "log_creation") =>
            (di = PDF_TOKENS /\ do = 0 /\ dc = INITIAL_UPLOAD_COST)
       /\ (pc[s] = "log_query" /\ pc'[s] # "log_query") =>
            dc = calculate_cost(di, do, "query", 0)
       /\ pc[s] \notin {"log_creation", "log_query"} =>
            (di = 0 /\ do = 0 /\ dc = 0)

\* C8: the usage ledger is increment-only: the three totals never decrease and
\* every completed cost-bearing call adds its token counts and its cost.
C8_LedgerIncrementOnly == [][C8_LedgerStep]_vars

\* C8 witness: a creation and two queries are in the ledger
C8_Witness ==
  \E s \in Users :
    /\ Len(chat_history[s]) = 2
    /\ total_input_tokens[s] > PDF_TOKENS
    /\ total_cost[s] > INITIAL_UPLOAD_COST + 2 * CACHED_CONTENT_COST_PER_QUERY

\* the evaluations of calculate_cost
Evaluated == probe.op = "calculate_cost"
\* what an argument adds to the cost: the cost less the cost without it
InputPart(p) == p.cost - p.zero_input
OutputPart(p) == p.cost - p.zero_output
HoursPart(p) == p.cost - p.zero_hours
\* x and 2x are billed at the same rate
SameTier(x) == 2 * x <= TIER_THRESHOLD \/ x > TIER_THRESHOLD

\* C9 as stated: calculate_cost is the five-term sum input x rate_in + output
\* x rate_out + pdf_count x flat fee + cache_tokens x rate_cache + cache_hours
\* x rate_storage (the function takes no pdf_count and no cache_tokens: both
\* are zero), so 1,000,000 input tokens alone cost exactly rate_in.
C9_FiveTermSum ==
  Evaluated =>
    probe.cost = probe.input_tokens * INPUT_COST_PER_1M_TOKENS
                   + probe.output_tokens * OUTPUT_COST_PER_1M_TOKENS
                   + probe.cache_hours * STORAGE_COST_PER_HOUR

\* C9 as amended: calculate_cost goes by operation type: the flat upload cost;
\* for a query the cached-content cost plus input and output, each at the rate
\* of its own tier; cache_hours x the hourly storage cost; else nothing.  A
\* query of 1,000,000 input tokens alone costs 0.15 + 0.0145125 dollars.
C9_CostByOperationType ==
  Evaluated =>
    LET i == probe.input_tokens
        o == probe.output_tokens
        ri == IF i > TIER_THRESHOLD THEN INPUT_COST_PER_1M_TOKENS
                                    ELSE STANDARD_INPUT_RATE
        ro == IF o > TIER_THRESHOLD THEN OUTPUT_COST_PER_1M_TOKENS
                                    ELSE STANDARD_OUTPUT_RATE
    IN /\ probe.operation_type = "initial_upload" =>
            probe.cost = PDF_TOKENS * INPUT_COST_PER_1M_TOKENS
       /\ probe.operation_type = "query" =>
            probe.cost = PDF_TOKENS * CONTEXT_CACHING_COST_PER_1M_TOKENS
                           + i * ri + o * ro
       /\ probe.operation_type = "storage" =>
            probe.cost = probe.cache_hours * PDF_TOKENS
                           * CONTEXT_CACHING_STORAGE_PER_HOUR
       /\ probe.operation_type = "other" => probe.cost = 0
       /\ (probe.operation_type = "query" /\ i = 1000000 /\ o = 0) =>
            probe.cost = 8774000

\* C9 witness: the query of 1,000,000 input tokens and nothing else
C9_Witness ==
  /\ Evaluated /\ probe.operation_type = "query"
  /\ probe.input_tokens = 1000000 /\ probe.output_tokens = 0
  /\ probe.cache_hours = 0 /\ probe.cost = 8774000

\* C10 as stated: with the other arguments fixed, doubling input_tokens,
\* output_tokens or cache_hours exactly doubles what that argument adds.
C10_DoublingDoubles ==
  Evaluated =>
    /\ probe.twice_input - probe.zero_input = 2 * InputPart(probe)
    /\ probe.twice_output - probe.zero_output = 2 * OutputPart(probe)
    /\ probe.twice_hours - probe.zero_hours = 2 * HoursPart(probe)

\* C10 as amended: doubling cache_hours doubles what it adds; doubling
\* input_tokens (output_tokens) doubles what it adds whenever the count and
\* its double are on the same side of the 128,000-token threshold.
C10_DoublingDoublesWithinTier ==
  Evaluated =>
    /\ SameTier(probe.input_tokens) =>
         probe.twice_input - probe.zero_input = 2 * InputPart(probe)
    /\ SameTier(probe.output_tokens) =>
         probe.twice_output - probe.zero_output = 2 * OutputPart(probe)
    /\ probe.twice_hours - probe.zero_hours = 2 * HoursPart(probe)

\* C10 witness: a query whose input, output and their doubles stay within a
\* tier, and a storage charge
C10_Witness ==
  /\ Evaluated /\ probe.operation_type = "query"
  /\ probe.input_tokens = 64000 /\ probe.output_tokens = 128001
  /\ InputPart(probe) > 0 /\ OutputPart(probe) > 0
  /\ probe.twice_input - probe.zero_input = 2 * InputPart(probe)

\* C11: loading the persisted record fails soft.  Whatever the status file
\* holds, no script run ends with an error of reading or interpreting it, and
\* a call that finds a file save_cache_status() did not write treats it as no
\* record: it retrieves nothing and goes on to creation.
C11_LoadFailsSoft ==
  \A s \in Users :
    /\ pc[s] # "check_raised"
    /\ (call[s].state # "none" /\ call[s].form \in DamageKinds) =>
         (~call[s].valid /\ call[s].get = "none")

\* C12, the state part: a creation whose record could not be written still
\* returns the new handle, and the session is started with it
C12_UnsavedHandleReturned ==
  \A s \in Users :
    (Returned(s) /\ call[s].made # None /\ ~call[s].saved) =>
      /\ call[s].ret = call[s].made
      /\ global_pdf_cache[s] = call[s].made
      /\ session_started[s]

\* C12, the step part: the session keeps that handle for its questions: the
\* script run that follows its return goes on to the chat interface, it does
\* not call get_or_create_global_cache again
C12_UnsavedHandleKept ==
  \A s \in Users :
    (/\ Returned(s) /\ call[s].made # None /\ ~call[s].saved
     /\ pc[s] = "start_section" /\ pc'[s] # "start_section") =>
      pc'[s] = "chat"

\* C12: saving the record fails soft.  When the write fails after a successful
\* creation the call still returns the new handle, the session becomes or
\* stays started with it, and it is the handle the session's questions are
\* asked against.
C12_SaveFailsSoft ==
  [] C12_UnsavedHandleReturned /\ [][C12_UnsavedHandleKept]_vars

\* where a script run stands inside get_or_create_global_cache
CallPcs == {"get_or_create", "get", "create", "create_hash", "create_remote",
            "save", "log_creation"}
\* a step of the session's own script run
Moves(s) == pc'[s] # pc[s]
\* the step ends the call without a handle: it returns None, or it raises
EndsWithoutHandle(s) ==
  /\ pc[s] \in CallPcs /\ Moves(s)
  /\ \/ pc'[s] \in Ended
     \/ pc'[s] = "return" /\ local'[s].cache = None
\* the step creates no cache, writes no record and logs no cost event
NothingDone(s) ==
  /\ ncaches' = ncaches /\ file' = file /\ logged' = logged
  /\ total_cost' = total_cost

\* C13 as stated, the step part: a call ends without a handle only where the
\* creation finds the document missing or unreadable, and then nothing is
\* created, persisted or logged
C13_OnlyTheDocumentStep ==
  \A s \in Users :
    EndsWithoutHandle(s) =>
      (pc[s] = "create" /\ doc \in {NoDoc, Unreadable} /\ NothingDone(s))

\* C13 as stated, the state part: once a call has ended without a handle the
\* session is not started
C13_NotStartedAfterwards ==
  \A s \in Users :
    /\ pc[s] = "create_raised" => ~session_started[s]
    /\ (Returned(s) /\ call[s].ret = None) => ~session_started[s]

\* C13 as stated: a missing or unreadable document is surfaced, with no cache,
\* no record, no cost event and the session not started, and it is the only
\* condition under which the call ends without a handle.
C13_OnlyTheDocument ==
  [] C13_NotStartedAfterwards /\ [][C13_OnlyTheDocumentStep]_vars

\* C13 as amended, the step part.  A creation that finds the document missing
\* returns None and one that finds it unreadable raises, and neither creates,
\* persists or logs anything; on None the script clears session_started and
\* the handle, on the exception the session is left as it was.  A call ends
\* without a handle there, and also where CachedContent.create raises or the
\* call's own validity check raises.  After a None the next script run calls
\* get_or_create_global_cache again only for a record it finds valid.
C13_NoHandleStep ==
  \A s \in Users :
    /\ (pc[s] = "create" /\ doc = NoDoc /\ Moves(s)) =>
         (pc'[s] = "return" /\ local'[s].cache = None /\ NothingDone(s))
    /\ (pc[s] = "return" /\ local[s].cache = None /\ Moves(s)) =>
         /\ ~session_started'[s] /\ global_pdf_cache'[s] = None
         /\ NothingDone(s)
    /\ (pc[s] = "create" /\ doc = Unreadable /\ Moves(s)) =>
         /\ pc'[s] = "create_raised" /\ NothingDone(s)
         /\ SessionOf(s)' = SessionOf(s)
    /\ EndsWithoutHandle(s) =>
         /\ NothingDone(s)
         /\ \/ pc[s] = "create" /\ doc \in {NoDoc, Unreadable}
            \/ pc[s] = "create_hash" /\ doc = Unreadable
            \/ pc[s] = "create_remote"
            \/ pc[s] = "get_or_create" /\ CheckRaises(file, doc, now)
    /\ (/\ Returned(s) /\ call[s].ret = None
        /\ pc[s] = "start_section" /\ pc'[s] = "get_or_create") =>
         is_global_cache_valid(file, doc, now)[1]

\* C13 as amended, the state part: a call that returned None created nothing,
\* wrote nothing and logged nothing, and the session is not started
C13_NoneReturned ==
  \A s \in Users :
    (Returned(s) /\ call[s].ret = None) =>
      /\ call[s].made = None
      /\ \A i \in 1..Len(call[s].events) : call[s].events[i] = "get"
      /\ ~session_started[s] /\ global_pdf_cache[s] = None

\* C13 as amended: a missing document makes the call return None, an
\* unreadable one makes it raise, with no cache, no record and no cost event;
\* a failing CachedContent.create or validity check also ends the call
\* without a handle.
C13_NoHandle == [] C13_NoneReturned /\ [][C13_NoHandleStep]_vars

\* C13 witness: a started session's refresh found the document missing: the
\* call returned None, the session is no longer started and holds no handle
C13_Witness ==
  \E s \in Users :
    /\ Returned(s) /\ call[s].ret = None /\ call[s].present
    /\ logged[s].initial_upload = 1 /\ ncaches = 1
    /\ ~session_started[s] /\ global_pdf_cache[s] = None

\* the step in which session s writes the status file
Saves(s) == pc[s] = "save" /\ Moves(s) /\ call'[s].saved

\* C14, the step part: a save overwrites the one record, whatever it held, with
\* the saving session's new cache, and nothing else changes the record
C14_LastSaverStep ==
  /\ \A s \in Users :
       Saves(s) =>
         file' = StatusRecord(call[s].made, now, get_pdf_hash(call[s].d))
  /\ (\A s \in Users : ~Saves(s)) => file' = file

\* C14, the state part: there is one record, and it names a cache that some
\* session created (or the one it was left with)
C14_OneRecord ==
  file.present => file.cache_name \in 1..ncaches

\* C14: the recreation race.  Nothing locks get_or_create_global_cache, so two
\* sessions that see the same expired or absent record each create a cache;
\* the one record is overwritten by each save and so names the cache of the
\* session that saved last.
C14_RecreationRace == [] C14_OneRecord /\ [][C14_LastSaverStep]_vars

\* C14 witness: both sessions saw the same expired record, neither tried to
\* retrieve its cache, each created one and saved, both calls are over, and
\* the record names the cache created first, whose session saved last
C14_Witness ==
  \E s \in Users, o \in Users :
    /\ s # o
    /\ \A u \in {s, o} :
         /\ call[u].present /\ call[u].old = LeftOver.cache_name
         /\ call[u].elapsed > GLOBAL_CACHE_DURATION_HOURS
         /\ ~call[u].valid /\ call[u].get = "none"
         /\ call[u].events = <<"create", "save", "log">> /\ call[u].saved
         /\ pc[u] \notin CallPcs
    /\ call[s].made < call[o].made
    /\ file.cache_name = call[s].made
    /\ ncaches = LeftOver.cache_name + 2

\* how many remote calls of one kind a get_or_create_global_cache call issued
Count(events, kind) == Cardinality({i \in 1..Len(events) : events[i] = kind})

\* one call issues at most one get and one create, one ask exactly one
\* generate_content
C15_OncePerCall ==
  \A s \in Users :
    /\ Count(call[s].events, "get") <= 1
    /\ Count(call[s].events, "create") <= 1
    /\ pc[s] = "ask" => local[s].generated = 0
    /\ pc[s] \in {"log_query", "append"} => local[s].generated = 1
    /\ local[s].generated <= 1

\* C15 as stated: no automatic retries.  One call issues at most one remote
\* get and one remote create, one ask exactly one generate_content, and after
\* a failed remote call none of the same kind is issued until the user acts
\* again.
C15_NoAutomaticRetries ==
  /\ C15_OncePerCall
  /\ \A s \in Users : chain[s].again = {}

\* C15 as amended, the state part: a failed create or generate_content ends the
\* script run, so the only remote call that the script runs following one user
\* event can issue again after it failed is the retrieval
C15_OnlyGetAgain ==
  /\ C15_OncePerCall
  /\ \A s \in Users : chain[s].failed \subseteq {"get"}

\* C15 as amended, the step part: a failed retrieval goes on to creation in the
\* same call, a failed creation or generation ends the script run, and a
\* retrieval is issued again only as the first remote call of a later call,
\* which the script's own rerun started
C15_FailureStep ==
  \A s \in Users :
    /\ (pc[s] = "get" /\ Moves(s) /\ call'[s].get = "failed") =>
         pc'[s] = "create"
    /\ (pc[s] = "create_remote" /\ Moves(s) /\ ncaches' = ncaches) =>
         pc'[s] = "create_raised"
    /\ (pc[s] = "ask" /\ Moves(s) /\ answered' = answered) =>
         pc'[s] = "generate_raised"
    /\ (pc[s] = "get" /\ Moves(s) /\ "get" \in chain[s].failed) =>
         (call[s].events = <<>> /\ call[s].get = "none")

\* C15 as amended: no call retries a remote call.  One call issues at most one
\* get and one create, one ask exactly one generate_content; a failed create
\* or generate_content ends the script run; a failed get falls through to
\* creation, and a get can be issued again without a user action only by a
\* later call that the script's rerun starts and that finds the record valid.
C15_NoRetryInCall == [] C15_OnlyGetAgain /\ [][C15_FailureStep]_vars

\* C15 witness: a retrieval failed, the same call created a cache instead and
\* returned it, and no retrieval was issued again
C15_Witness ==
  \E s \in Users :
    /\ "get" \in chain[s].failed /\ chain[s].again = {}
    /\ call[s].events = <<"get", "create", "save", "log">>
    /\ pc[s] \notin CallPcs

\* the script run is inside ask_question or has just left it, the turn not
\* yet appended
Asking(s) == pc[s] \in {"ask", "log_query", "append"}

Last(seq, n) == SubSeq(seq, Len(seq) - n + 1, Len(seq))

\* C17, the state part: a call that created a cache and is over did, after the
\* creation and in this order, the save and one cost event with the TTL's
\* hours; a call that created nothing logged no creation
C17_CreationThenRecordThenCost ==
  \A s \in Users :
    /\ (call[s].made # None /\ pc[s] \notin CallPcs) =>
         /\ Len(call[s].events) >= 3
         /\ Last(call[s].events, 3) = <<"create", "save", "log">>
         /\ Count(call[s].events, "log") = 1
         /\ call[s].log_hours = GLOBAL_CACHE_DURATION_HOURS
         /\ call[s].log_hours = 24
    /\ call[s].made = None => Count(call[s].events, "log") = 0
    /\ logged[s].initial_upload <= ncaches

\* C17, the step part: the creation is followed by the save, the save by the
\* cost event, which is one "initial_upload" event of the creating session
\* and of no other, and no other step of a call logs one
C17_CreationSteps ==
  \A s \in Users :
    /\ (pc[s] = "create_remote" /\ ncaches' # ncaches) => pc'[s] = "save"
    /\ (pc[s] = "save" /\ Moves(s)) => pc'[s] = "log_creation"
    /\ (pc[s] = "log_creation" /\ Moves(s)) =>
         /\ pc'[s] = "return"
         /\ logged' = [logged EXCEPT ![s].initial_upload = @ + 1]
         /\ local'[s].cache = call[s].made
    /\ (pc[s] # "log_creation" /\ Moves(s)) =>
         logged'[s].initial_upload = logged[s].initial_upload

\* C17: every successful creation is followed, in the same call and in this
\* order, by persisting the new record and by logging exactly one
\* creation-cost event in the creating session, with cache_hours the TTL in
\* hours (24); a call that reuses an existing cache logs none.
C17_CreationIsRecordedAndLogged ==
  [] C17_CreationThenRecordThenCost /\ [][C17_CreationSteps]_vars

\* C17 witness: a session that had created the first cache created the second
\* in a later call, which saved its record and logged one creation
C17_Witness ==
  \E s \in Users :
    /\ Returned(s) /\ call[s].made = 2 /\ call[s].saved
    /\ call[s].events = <<"create", "save", "log">>
    /\ logged[s].initial_upload = 2 /\ file.cache_name = 2

\* C18, the state part: whenever the session is idle it has logged as many
\* "query" cost events as its transcript has turns, and inside ask_question
\* the one question being handled is the one Send delivered
C18_LoggedAsAppended ==
  \A s \in Users :
    /\ pc[s] \in Ended => logged[s].query = Len(chat_history[s])
    /\ pc[s] = "append" => logged[s].query = Len(chat_history[s]) + 1
    /\ Asking(s) => (local[s].clicked = "send" /\ local[s].conversation # <<>>)

\* C18, the step part: prompt build, remote call, cost log, transcript append,
\* in this order, each done once, and a question is accepted only by a script
\* run that starts when the session is idle
C18_InOrder ==
  \A s \in Users :
    /\ (pc'[s] = "ask" /\ Moves(s)) =>
         /\ pc[s] = "chat"
         /\ local'[s].conversation =
              conversation(chat_history[s], local[s].question)
    /\ (pc[s] = "ask" /\ Moves(s)) =>
         /\ pc'[s] \in {"log_query", "generate_raised"}
         /\ logged' = logged /\ chat_history' = chat_history
    /\ (pc[s] = "log_query" /\ Moves(s)) =>
         /\ pc'[s] = "append"
         /\ logged' = [logged EXCEPT ![s].query = @ + 1]
         /\ chat_history' = chat_history
    /\ (pc[s] = "append" /\ Moves(s)) =>
         /\ chat_history' = [chat_history EXCEPT ![s] =
                               Append(@, <<local[s].question, local[s].answer>>)]
         /\ logged' = logged
    /\ (pc[s] \notin {"log_query", "append"} /\ Moves(s)) =>
         /\ logged'[s].query = logged[s].query
         /\ chat_history'[s] = chat_history[s]
    /\ (local'[s].clicked = "send" /\ local[s].clicked # "send") =>
         pc[s] \in Ended

\* C18: within a session each question is handled to completion, in the order
\* prompt build, remote generate call, cost log, transcript append, before the
\* next question is accepted; so whenever the session is idle the number of
\* logged "query" cost events equals the transcript length.
C18_OneQuestionAtATime == [] C18_LoggedAsAppended /\ [][C18_InOrder]_vars

\* C18 witness: the session is idle after its second question was answered,
\* logged and appended
C18_Witness ==
  \E s \in Users :
    /\ pc[s] = "idle" /\ Len(chat_history[s]) = 2 /\ logged[s].query = 2
    /\ Len(answered[s]) = 2

\* what the step adds to a running total of session s
Added(total, s) == total'[s] - total[s]

\* C19, the step part: whatever the two count_tokens calls do, the query's cost
\* event is logged and ask_question returns; a count that failed is replaced
\* by the text's length divided by 4, and the event's cost is that of the
\* counts used; the answer then joins the transcript
C19_CountFallbackStep ==
  \A s \in Users :
    /\ (pc[s] = "log_query" /\ Moves(s)) =>
         LET prompt == PromptHead \o local[s].question \o PromptTail
             x == local'[s].counted[1]
             y == local'[s].counted[2]
         IN /\ pc'[s] = "append"
            /\ logged'[s].query = logged[s].query + 1
            /\ x = None => Added(total_input_tokens, s) = Len(prompt) \div 4
            /\ x # None => Added(total_input_tokens, s) = x
            /\ y = None =>
                 Added(total_output_tokens, s) = Len(local[s].answer) \div 4
            /\ y # None => Added(total_output_tokens, s) = y
            /\ Added(total_cost, s) =
                 calculate_cost(Added(total_input_tokens, s),
                                Added(total_output_tokens, s), "query", 0)
            /\ local'[s].answer = local[s].answer
    /\ (pc[s] = "append" /\ Moves(s)) =>
         /\ Len(chat_history'[s]) = Len(chat_history[s]) + 1
         /\ chat_history'[s][Len(chat_history'[s])] =
              <<local[s].question, answered[s][Len(answered[s])][2]>>

\* C19, the state part: after the counts, whatever they did, the answer the
\* remote model gave is what ask_question returns
C19_AnswerKept ==
  \A s \in Users :
    pc[s] = "append" =>
      /\ Len(local[s].counted) = 2
      /\ local[s].answer = answered[s][Len(answered[s])][2]
      /\ local[s].question = answered[s][Len(answered[s])][1]

\* C19: a failure of the remote token count never fails an ask.  The count
\* falls back to the text's length divided by 4, the query's cost event is
\* still logged, with the fallback counts, and the answer is still returned
\* and appended to the transcript.
C19_CountNeverFailsAnAsk == [] C19_AnswerKept /\ [][C19_CountFallbackStep]_vars

\* C19 witness: both counts failed; the event was logged with a quarter of
\* the prompt's and of the answer's length, and the answer is about to be
\* appended
C19_Witness ==
  \E s \in Users :
    /\ pc[s] = "append" /\ local[s].counted = <<None, None>>
    /\ local[s].answer = "answer-2" /\ logged[s].query = 1
    /\ total_output_tokens[s] = 2
    /\ total_input_tokens[s] =
         PDF_TOKENS + Len(bilingual_prompt(local[s].question)) \div 4

\* the started session's check accepts the record and the script goes on to
\* the chat interface with a question to send
AcceptsAndSends(s) ==
  /\ pc[s] = "start_section" /\ pc'[s] = "chat"
  /\ session_started[s] /\ global_pdf_cache[s] # None
  /\ local[s].clicked = "send" /\ strip(local[s].question) # ""

\* C20, the step part: when the check of a session that sends a question
\* accepts the record, the handle the session holds is the cache the record
\* names
C20_HandleIsTheRecordsStep ==
  \A s \in Users :
    AcceptsAndSends(s) =>
      /\ is_global_cache_valid(file, doc, now)[1]
      /\ global_pdf_cache[s] = file.cache_name

\* C20: whenever a session sends a question, the handle it holds is the cache
\* named by the record its validity check has just accepted; it never asks
\* against a handle that another session's recreation, or a failed save, has
\* made different from the current valid record.
C20_AsksAgainstTheRecordsCache == [][C20_HandleIsTheRecordsStep]_vars

\* the session is started and holds a handle
StartedWithHandle(s) == session_started[s] /\ global_pdf_cache[s] # None

\* C21, the state part: at the end of every script run a started session holds
\* a handle, and so does a session whose question is with the remote model
C21_StartedHoldsHandle ==
  \A s \in Users :
    /\ (pc[s] \in Ended /\ session_started[s]) => global_pdf_cache[s] # None
    /\ Asking(s) => StartedWithHandle(s)

\* C21, the step part: a question goes to the remote model only from the chat
\* interface of a started session with a handle, and a refresh that returns no
\* handle clears session_started
C21_FlagSteps ==
  \A s \in Users :
    /\ (pc'[s] = "ask" /\ Moves(s)) => (pc[s] = "chat" /\ StartedWithHandle(s))
    /\ answered'[s] # answered[s] => StartedWithHandle(s)
    /\ (pc[s] = "return" /\ session_started[s] /\ local[s].cache = None
        /\ Moves(s)) =>
         (~session_started'[s] /\ global_pdf_cache'[s] = None)
    /\ (~session_started[s] /\ session_started'[s]) =>
         (pc[s] = "return" /\ global_pdf_cache'[s] # None)

\* C21: the session flag.  At the end of every script run session_started is
\* true only if the session holds a non-empty cache handle; a question is sent
\* to the remote model only when both hold; and a refresh that yields no
\* handle resets session_started to false.
C21_SessionFlag == [] C21_StartedHoldsHandle /\ [][C21_FlagSteps]_vars

\* C21 witness: a session that had been started and had a question answered
\* is idle and no longer started: its refresh got no handle
C21_Witness ==
  \E s \in Users :
    /\ pc[s] = "idle" /\ Len(chat_history[s]) = 1
    /\ ~session_started[s] /\ global_pdf_cache[s] = None

\* C22, the step part: the record a creation saves names the cache just
\* created and holds the digest of the bytes that were uploaded into it
C22_HashOfUploadedStep ==
  \A s \in Users :
    Saves(s) =>
      /\ file'.cache_name = local[s].cache
      /\ file'.pdf_hash = md5(local[s].file_bytes)

\* C22: the hash in a persisted record is always the digest of the document
\* bytes that were uploaded into the cache the record names, even if the
\* document is replaced while the creation is in progress.
C22_HashOfUploadedBytes == [][C22_HashOfUploadedStep]_vars

====
